---------------------------- MODULE Spec2Model ----------------------------
(***************************************************************************)
(* Model of pi_camera_server.py: the startup sequence of main(), the       *)
(* external still-image tool started through os.system, and the request    *)
(* handler CameraWebHandler served by a plain http.server.HTTPServer.      *)
(*                                                                         *)
(* Environment contract of the external tool (it is not part of the       *)
(* program): it either fails before opening its output, or exits 0 without *)
(* producing output, or opens (truncates) its output, writes the image     *)
(* chunk by chunk and then exits 0.  Only the tool writes image files.     *)
(***************************************************************************)
EXTENDS Integers, Sequences, FiniteSets, TLC

(* ------------------------------ bounds -------------------------------- *)
MaxConns == 2       \* handler instances the model provides
MaxShots == 3       \* images the tool can produce in one run of the model
ImageLen == 2       \* chunks in one complete image

Conns == 1..MaxConns
MainThread == 0
Callers == {MainThread} \cup Conns

(* --------------------------- configuration ---------------------------- *)
PHOTO == "/tmp/picam/current_photo.jpg"
TEST_CAM == "/tmp/test_cam.jpg"
Paths == {PHOTO, TEST_CAM}
ExitCodes == {0, 1}

(* ------------------------------ requests ------------------------------ *)
Methods == {"GET", "POST", "HEAD"}
Targets ==
  { <<"/">>,
    <<"/", "photo">>,
    <<"/", "capture">>,
    <<"/", "photo", "?", "1">>,
    <<"/", "capture", "#", "f">>,
    <<"/", "photo", ";", "x">>,
    <<"/", "capture", ";", "x">>,
    <<"/", "photo", ";", "x", "/", "y">>,
    <<"/", "other">> }

(* ------------------------------- files -------------------------------- *)
NoFile == [exists |-> FALSE, bytes |-> <<>>, mtime |-> 0]
Image(k) == [i \in 1..ImageLen |-> k]

(* ------------------------- urllib.parse.urlparse ---------------------- *)
Positions(s, ch) == {i \in 1..Len(s) : s[i] = ch}
MinOf(S) == CHOOSE i \in S : \A j \in S : i <= j
MaxOf(S) == CHOOSE i \in S : \A j \in S : j <= i
BeforeFirst(s, ch) ==
  IF Positions(s, ch) = {} THEN s ELSE SubSeq(s, 1, MinOf(Positions(s, ch)) - 1)

\* urlsplit: the fragment is cut off first, then the query
UrlSplitPath(url) == BeforeFirst(BeforeFirst(url, "#"), "?")

\* _splitparams: ";params" are cut off the last path segment only
SplitParams(url) ==
  LET slashes == Positions(url, "/")
      from == IF slashes = {} THEN 1 ELSE MaxOf(slashes)
      semis == {i \in Positions(url, ";") : i >= from}
  IN  IF semis = {} THEN url ELSE SubSeq(url, 1, MinOf(semis) - 1)

UrlParsePath(target) == SplitParams(UrlSplitPath(target))

(* ------------------------------ routing ------------------------------- *)
\* a router that sends "/" to the capture branch
RouteSwapped(path) ==
  IF path = <<"/">> THEN "capture"
  ELSE IF path = <<"/", "photo">> THEN "photo"
  ELSE IF path = <<"/", "capture">> THEN "index"
  ELSE "notfound"
Route(path) ==
  IF path = <<"/">> THEN "index"
  ELSE IF path = <<"/", "photo">> THEN "photo"
  ELSE IF path = <<"/", "capture">> THEN "capture"
  ELSE "notfound"

(* ---------------------------- capture_photo --------------------------- *)
\* a result that trusts the exit status alone
CaptureResultNoExists(code, f) == code = 0
\* a result that accepts an existing file alone
CaptureResultAnyFile(code, f) == code = 0 \/ f.exists
CaptureResult(code, f) == code = 0 /\ f.exists

(* --------------------------- get_photo_timestamp ---------------------- *)
NoStamp == [text |-> "No photo available", t |-> 0]
PhotoTimestamp(f) ==
  IF f.exists THEN [text |-> "%Y-%m-%d %H:%M:%S", t |-> f.mtime] ELSE NoStamp

(* ------------------------------ responses ----------------------------- *)
Resp(status, ctype, cache, text, bytes, stamp) ==
  [status |-> status, ctype |-> ctype, cache |-> cache,
   text |-> text, bytes |-> bytes, stamp |-> stamp]

IndexResponse(f) == Resp(200, "text/html", "", "Pi Camera Viewer", <<>>, PhotoTimestamp(f))
\* a photo response that may be cached by the client
PhotoResponseCached(f) == Resp(200, "image/jpeg", "", "", f.bytes, NoStamp)
PhotoResponse(f) == Resp(200, "image/jpeg", "no-cache", "", f.bytes, NoStamp)
PhotoMissing == Resp(404, "", "", "Photo not found", <<>>, NoStamp)
CaptureOkResponse == Resp(200, "text/plain", "", "Photo captured successfully", <<>>, NoStamp)
CaptureFailed == Resp(500, "", "", "Failed to capture photo", <<>>, NoStamp)
NotFound == Resp(404, "", "", "Not found", <<>>, NoStamp)
\* BaseHTTPRequestHandler.send_error(501): no body is sent for HEAD
Unsupported(method) ==
  Resp(501, "text/html;charset=utf-8", "",
       IF method = "HEAD" THEN "" ELSE "Unsupported method", <<>>, NoStamp)

(* -------------------------------- state ------------------------------- *)
VARIABLES
  pc,          \* position of main()
  dirExists,   \* PHOTO_DIR exists
  files,       \* the photo file and the scratch file of the probe
  shots,       \* images produced by the tool so far
  proc,        \* per caller: the external process os.system waits for
  handler,     \* per connection: the CameraWebHandler instance
  setupResult, \* return value of setup_camera: "pending", "true", "false"
  initResult,  \* return value of the initial capture_photo
  trail,       \* startup steps completed, in order
  preexisting, \* a photo file was on disk when the process started
  captureOk,   \* some /capture request has returned true
  last,        \* the most recently completed exchange
  prev,        \* the exchange before `last` was a /capture answered 200
  lastPhoto    \* last /photo response since the latest /capture request

vars == <<pc, dirExists, files, shots, proc, handler, setupResult, initResult,
          trail, preexisting, captureOk, last, prev, lastPhoto>>

NoProc == [state |-> "none", out |-> PHOTO, img |-> 0, code |-> 0]
Started(out) == [state |-> "started", out |-> out, img |-> 0, code |-> 0]
Running(p) == proc[p].state \in {"started", "writing"}

IdleHandler ==
  [pc |-> "idle", method |-> "", target |-> <<>>, calls |-> 0,
   touched |-> FALSE, outcome |-> "none", before |-> NoFile]

NoResp == Resp(0, "", "", "", <<>>, NoStamp)
NoExchange ==
  [method |-> "", target |-> <<>>, calls |-> 0, touched |-> FALSE,
   outcome |-> "none", before |-> NoFile, resp |-> NoResp]
Exchange(h, r) ==
  [method |-> h.method, target |-> h.target, calls |-> h.calls,
   touched |-> h.touched, outcome |-> h.outcome, before |-> h.before,
   resp |-> r]
NoPhoto == [n |-> 0, resp |-> NoResp]
SeenPhoto(r) == [n |-> IF lastPhoto.n < 2 THEN lastPhoto.n + 1 ELSE 2, resp |-> r]

Init ==
  /\ pc = "setup"
  /\ dirExists \in BOOLEAN
  /\ files \in { [p \in Paths |-> NoFile] } \cup
               { [p \in Paths |->
                    IF p = PHOTO /\ dirExists
                    THEN [exists |-> TRUE, bytes |-> Image(0), mtime |-> 0]
                    ELSE NoFile] }
  /\ shots = 0
  /\ proc = [p \in Callers |-> NoProc]
  /\ handler = [c \in Conns |-> IdleHandler]
  /\ setupResult = "pending"
  /\ initResult = "pending"
  /\ trail = <<>>
  /\ preexisting = files[PHOTO].exists
  /\ captureOk = FALSE
  /\ last = NoExchange
  /\ prev = FALSE
  /\ lastPhoto = NoPhoto

(* --------------------------- the external tool ------------------------ *)
\* The tool opens its output file, truncating it.
ToolOpen(p) ==
  /\ proc[p].state = "started"
  /\ dirExists \/ proc[p].out = TEST_CAM
  /\ shots < MaxShots
  /\ shots' = shots + 1
  /\ files' = [files EXCEPT ![proc[p].out] =
                 [exists |-> TRUE, bytes |-> <<>>, mtime |-> shots + 1]]
  /\ proc' = [proc EXCEPT ![p].state = "writing", ![p].img = shots + 1]
  /\ UNCHANGED <<pc, dirExists, handler, setupResult, initResult, trail,
                 preexisting, captureOk, last, prev, lastPhoto>>

\* The tool appends one chunk of the image.
ToolWrite(p) ==
  /\ proc[p].state = "writing"
  /\ Len(files[proc[p].out].bytes) < ImageLen
  /\ files' = [files EXCEPT ![proc[p].out].bytes = Append(@, proc[p].img)]
  /\ UNCHANGED <<pc, dirExists, shots, proc, handler, setupResult, initResult,
                 trail, preexisting, captureOk, last, prev, lastPhoto>>

\* The tool exits: with any status before it opened its output, with status 0
\* once the image is complete.
ToolExit(p, code) ==
  /\ \/ proc[p].state = "started"
     \/ /\ proc[p].state = "writing"
        /\ Len(files[proc[p].out].bytes) = ImageLen
        /\ code = 0
  /\ proc' = [proc EXCEPT ![p].state = "exited", ![p].code = code]
  /\ UNCHANGED <<pc, dirExists, files, shots, handler, setupResult, initResult,
                 trail, preexisting, captureOk, last, prev, lastPhoto>>

(* -------------------------------- main -------------------------------- *)
\* setup_camera: makedirs, then os.system(test_cmd) starts the probe.
SetupCamera ==
  /\ pc = "setup"
  /\ dirExists' = TRUE
  /\ proc' = [proc EXCEPT ![MainThread] = Started(TEST_CAM)]
  /\ pc' = "probe"
  /\ UNCHANGED <<files, shots, handler, setupResult, initResult, trail,
                 preexisting, captureOk, last, prev, lastPhoto>>

\* setup_camera: os.system raises; the except branch returns False and main
\* returns.
SetupCameraRaise ==
  /\ pc = "setup"
  /\ dirExists' = TRUE
  /\ setupResult' = "false"
  /\ trail' = Append(trail, "probe")
  /\ pc' = "exited"
  /\ UNCHANGED <<files, shots, proc, handler, initResult, preexisting,
                 captureOk, last, prev, lastPhoto>>

\* What setup_camera returns once the probe has exited: True when the status
\* is 0 and os.remove finds the scratch file; False on a non-zero status or
\* when os.remove raises.
SetupOk(code, f) == code = 0 /\ f.exists

\* a main that ignores what setup_camera returned
AfterSetupAlways(ok) == "initial"
\* a main that skips the initial capture
AfterSetupSkip(ok) == IF ok THEN "bind" ELSE "exited"
\* main continues after setup_camera only when it returned True
AfterSetup(ok) == IF ok THEN "initial" ELSE "exited"

ProbeReturn ==
  /\ pc = "probe"
  /\ proc[MainThread].state = "exited"
  /\ LET ok == SetupOk(proc[MainThread].code, files[TEST_CAM])
     IN  /\ setupResult' = IF ok THEN "true" ELSE "false"
         /\ files' = IF proc[MainThread].code = 0
                     THEN [files EXCEPT ![TEST_CAM] = NoFile]
                     ELSE files
         /\ pc' = AfterSetup(ok)
  /\ trail' = Append(trail, "probe")
  /\ proc' = [proc EXCEPT ![MainThread] = NoProc]
  /\ UNCHANGED <<dirExists, shots, handler, initResult, preexisting,
                 captureOk, last, prev, lastPhoto>>

\* main: the initial capture_photo starts the tool.
InitialCapture ==
  /\ pc = "initial"
  /\ proc' = [proc EXCEPT ![MainThread] = Started(PHOTO)]
  /\ pc' = "initialWait"
  /\ UNCHANGED <<dirExists, files, shots, handler, setupResult, initResult,
                 trail, preexisting, captureOk, last, prev, lastPhoto>>

\* main: os.system raises inside the initial capture_photo, which returns
\* False.
InitialCaptureRaise ==
  /\ pc = "initial"
  /\ initResult' = "false"
  /\ trail' = Append(trail, "capture")
  /\ pc' = "bind"
  /\ UNCHANGED <<dirExists, files, shots, proc, handler, setupResult,
                 preexisting, captureOk, last, prev, lastPhoto>>

InitialCaptureReturn ==
  /\ pc = "initialWait"
  /\ proc[MainThread].state = "exited"
  /\ initResult' = IF CaptureResult(proc[MainThread].code, files[PHOTO])
                   THEN "true" ELSE "false"
  /\ trail' = Append(trail, "capture")
  /\ proc' = [proc EXCEPT ![MainThread] = NoProc]
  /\ pc' = "bind"
  /\ UNCHANGED <<dirExists, files, shots, handler, setupResult, preexisting,
                 captureOk, last, prev, lastPhoto>>

\* main: HTTPServer(...) is created and serve_forever is entered, whatever the
\* initial capture returned.
StartServer ==
  /\ pc = "bind"
  /\ pc' = "serving"
  /\ UNCHANGED <<dirExists, files, shots, proc, handler, setupResult,
                 initResult, trail, preexisting, captureOk, last, prev,
                 lastPhoto>>

\* KeyboardInterrupt leaves serve_forever; server_close. os.system ignores the
\* interrupt while it waits for the tool.
Interrupt ==
  /\ pc = "serving"
  /\ \A p \in Callers : ~Running(p)
  /\ pc' = "stopped"
  /\ UNCHANGED <<dirExists, files, shots, proc, handler, setupResult,
                 initResult, trail, preexisting, captureOk, last, prev,
                 lastPhoto>>

(* ------------------------- HTTPServer.serve_forever ------------------- *)
\* a server that hands every connection to its own thread (ThreadingMixIn)
ServeForeverThreaded == TRUE
\* HTTPServer has no ThreadingMixIn: process_request runs the handler to its
\* end before the next connection is accepted.
ServeForeverReady == \A c \in Conns : handler[c].pc = "idle"

\* The handler is done: the exchange is recorded and the instance dropped.
Finish(c, h, r) ==
  /\ handler' = [handler EXCEPT ![c] = IdleHandler]
  /\ last' = Exchange(h, r)
  /\ prev' = (last.resp = CaptureOkResponse)

\* serve_forever accepts a connection and parses the request line.
Accept(c, m, t) ==
  /\ pc = "serving"
  /\ ServeForeverReady
  /\ handler[c].pc = "idle"
  /\ handler' = [handler EXCEPT ![c] =
                   [IdleHandler EXCEPT !.pc = "dispatch", !.method = m, !.target = t]]
  /\ UNCHANGED <<pc, dirExists, files, shots, proc, setupResult, initResult,
                 trail, preexisting, captureOk, last, prev, lastPhoto>>

(* -------------------- BaseHTTPRequestHandler dispatch ----------------- *)
\* a handler class that answers every method with do_GET
HasMethodAny(m) == TRUE
\* CameraWebHandler defines do_GET only.
HasMethod(m) == m = "GET"

\* handle_one_request: no do_<METHOD> attribute, send_error(501).
UnsupportedMethod(c) ==
  /\ pc = "serving"
  /\ handler[c].pc = "dispatch"
  /\ ~HasMethod(handler[c].method)
  /\ Finish(c, handler[c], Unsupported(handler[c].method))
  /\ UNCHANGED <<pc, dirExists, files, shots, proc, setupResult, initResult,
                 trail, preexisting, captureOk, lastPhoto>>

InDoGet(c, route) ==
  /\ pc = "serving"
  /\ handler[c].pc = "dispatch"
  /\ HasMethod(handler[c].method)
  /\ Route(UrlParsePath(handler[c].target)) = route

(* ------------------------ CameraWebHandler.do_GET --------------------- *)
\* "/": the viewer page with the timestamp line.
DoGetIndex(c) ==
  /\ InDoGet(c, "index")
  /\ Finish(c, [handler[c] EXCEPT !.touched = TRUE], IndexResponse(files[PHOTO]))
  /\ UNCHANGED <<pc, dirExists, files, shots, proc, setupResult, initResult,
                 trail, preexisting, captureOk, lastPhoto>>

\* "/photo": os.path.exists(photo_path); 404 when it is missing.
DoGetPhoto(c) ==
  /\ InDoGet(c, "photo")
  /\ IF files[PHOTO].exists
     THEN /\ handler' = [handler EXCEPT ![c].pc = "read", ![c].touched = TRUE]
          /\ UNCHANGED <<last, prev, lastPhoto>>
     ELSE /\ Finish(c, [handler[c] EXCEPT !.touched = TRUE], PhotoMissing)
          /\ lastPhoto' = SeenPhoto(PhotoMissing)
  /\ UNCHANGED <<pc, dirExists, files, shots, proc, setupResult, initResult,
                 trail, preexisting, captureOk>>

\* "/photo": the file is opened and its bytes are sent.
DoGetPhotoRead(c) ==
  /\ pc = "serving"
  /\ handler[c].pc = "read"
  /\ Finish(c, handler[c], PhotoResponse(files[PHOTO]))
  /\ lastPhoto' = SeenPhoto(PhotoResponse(files[PHOTO]))
  /\ UNCHANGED <<pc, dirExists, files, shots, proc, setupResult, initResult,
                 trail, preexisting, captureOk>>

\* "/capture": capture_photo starts the tool with os.system and waits.
DoGetCapture(c) ==
  /\ InDoGet(c, "capture")
  /\ handler' = [handler EXCEPT ![c].pc = "wait", ![c].calls = @ + 1,
                                ![c].before = files[PHOTO]]
  /\ proc' = [proc EXCEPT ![c] = Started(PHOTO)]
  /\ lastPhoto' = NoPhoto
  /\ UNCHANGED <<pc, dirExists, files, shots, setupResult, initResult, trail,
                 preexisting, captureOk, last, prev>>

\* "/capture": os.system raises; capture_photo returns False.
DoGetCaptureRaise(c) ==
  /\ InDoGet(c, "capture")
  /\ Finish(c, [handler[c] EXCEPT !.calls = @ + 1, !.outcome = "raised"],
            CaptureFailed)
  /\ lastPhoto' = NoPhoto
  /\ UNCHANGED <<pc, dirExists, files, shots, proc, setupResult, initResult,
                 trail, preexisting, captureOk>>

\* "/capture": the tool has exited; capture_photo returns and do_GET answers.
CaptureReturn(c) ==
  /\ pc = "serving"
  /\ handler[c].pc = "wait"
  /\ proc[c].state = "exited"
  /\ LET ok == CaptureResult(proc[c].code, files[PHOTO])
     IN  /\ Finish(c, [handler[c] EXCEPT
                          !.touched = TRUE,
                          !.outcome = IF proc[c].code = 0 THEN "exit0" ELSE "exitN"],
                   IF ok THEN CaptureOkResponse ELSE CaptureFailed)
         /\ captureOk' = (captureOk \/ ok)
  /\ proc' = [proc EXCEPT ![c] = NoProc]
  /\ UNCHANGED <<pc, dirExists, files, shots, setupResult, initResult, trail,
                 preexisting, lastPhoto>>

\* any other path.
DoGetNotFound(c) ==
  /\ InDoGet(c, "notfound")
  /\ Finish(c, handler[c], NotFound)
  /\ UNCHANGED <<pc, dirExists, files, shots, proc, setupResult, initResult,
                 trail, preexisting, captureOk, lastPhoto>>

(* ---------------------------- specification --------------------------- *)
Next ==
  \/ SetupCamera
  \/ SetupCameraRaise
  \/ ProbeReturn
  \/ InitialCapture
  \/ InitialCaptureRaise
  \/ InitialCaptureReturn
  \/ StartServer
  \/ Interrupt
  \/ \E p \in Callers : ToolOpen(p)
  \/ \E p \in Callers : ToolWrite(p)
  \/ \E p \in Callers, code \in ExitCodes : ToolExit(p, code)
  \/ \E c \in Conns, m \in Methods, t \in Targets : Accept(c, m, t)
  \/ \E c \in Conns : UnsupportedMethod(c)
  \/ \E c \in Conns : DoGetIndex(c)
  \/ \E c \in Conns : DoGetPhoto(c)
  \/ \E c \in Conns : DoGetPhotoRead(c)
  \/ \E c \in Conns : DoGetCapture(c)
  \/ \E c \in Conns : DoGetCaptureRaise(c)
  \/ \E c \in Conns : CaptureReturn(c)
  \/ \E c \in Conns : DoGetNotFound(c)

Spec == Init /\ [][Next]_vars

(* ------------------------------- claims ------------------------------- *)
IsGet(x) == x.method = "GET"
RouteOf(x) == Route(UrlParsePath(x.target))
Answered(c) == handler[c].pc # "idle" /\ handler'[c].pc = "idle"
PhotoBeingWritten == \E p \in Callers : Running(p) /\ proc[p].out = PHOTO
JpegOk(r) ==
  r.status = 200 /\ r.ctype = "image/jpeg" /\ r.cache = "no-cache"

\* C1: a GET /capture is answered 200 "Photo captured successfully" exactly
\* when the tool exited with status 0 and the photo file exists once it has
\* exited; otherwise (non-zero exit, missing file, os.system raising) it is
\* answered 500 "Failed to capture photo"; the tool is invoked once per
\* request.
C1_CaptureAnswer ==
  /\ [](IsGet(last) /\ RouteOf(last) = "capture" =>
          /\ last.calls = 1
          /\ last.outcome \in {"raised", "exit0", "exitN"}
          /\ \/ last.resp.status = 200 /\ last.resp.text = "Photo captured successfully"
             \/ last.resp.status = 500 /\ last.resp.text = "Failed to capture photo"
          /\ last.outcome \in {"raised", "exitN"} => last.resp.status = 500)
  /\ [][\A c \in Conns :
          handler[c].pc = "wait" /\ Answered(c) =>
            (last'.resp.status = 200 <=>
               proc[c].code = 0 /\ files[PHOTO].exists)]_vars
\* a status-0 exit that left no photo file, answered 500
C1_Witness ==
  /\ IsGet(last) /\ RouteOf(last) = "capture"
  /\ last.outcome = "exit0"
  /\ last.resp.status = 500
  /\ ~files[PHOTO].exists

\* C2: a GET /photo is answered 404 "Photo not found" when the photo file does
\* not exist, and otherwise 200 image/jpeg, no-cache, with the bytes the file
\* holds at that moment.
C2_PhotoAnswer ==
  [][\A c \in Conns :
       IsGet(handler[c]) /\ RouteOf(handler[c]) = "photo" /\ Answered(c) =>
         IF files[PHOTO].exists
         THEN JpegOk(last'.resp) /\ last'.resp.bytes = files[PHOTO].bytes
         ELSE last'.resp.status = 404 /\ last'.resp.text = "Photo not found"]_vars
\* a freshly captured image served by /photo
C2_Witness ==
  /\ IsGet(last) /\ RouteOf(last) = "photo"
  /\ JpegOk(last.resp)
  /\ shots > 0 /\ last.resp.bytes = Image(shots)

\* C3: the GET /photo that immediately follows a GET /capture answered 200 is
\* answered 200 image/jpeg with a non-empty body.
C3_PhotoAfterCapture ==
  prev /\ IsGet(last) /\ RouteOf(last) = "photo" =>
    /\ last.resp.status = 200
    /\ last.resp.ctype = "image/jpeg"
    /\ Len(last.resp.bytes) > 0
\* a /photo answered right after a successful /capture
C3_Witness ==
  /\ prev /\ IsGet(last) /\ RouteOf(last) = "photo"
  /\ last.resp.status = 200

\* C4: when the tool exits non-zero, GET /capture is answered 500 "Failed to
\* capture photo" and the photo file is what it was before the request, so a
\* /photo request gets the answer it would have got before.
PhotoAnswerFor(f) == IF f.exists THEN PhotoResponse(f) ELSE PhotoMissing
C4_FailedCaptureFrame ==
  /\ \A c \in Conns :
       handler[c].pc = "wait" /\ proc[c].state = "exited" /\ proc[c].code # 0 =>
         /\ files[PHOTO] = handler[c].before
         /\ PhotoAnswerFor(files[PHOTO]) = PhotoAnswerFor(handler[c].before)
  /\ last.outcome = "exitN" =>
       /\ last.resp.status = 500
       /\ last.resp.text = "Failed to capture photo"
       /\ (\A c \in Conns : handler[c].pc = "idle") => files[PHOTO] = last.before
\* a failed capture answered 500 with the earlier photo still in place
C4_Witness ==
  /\ last.outcome = "exitN"
  /\ last.resp.status = 500
  /\ files[PHOTO].exists
  /\ files[PHOTO] = last.before

\* C5: when the probe fails, main returns without creating the server and no
\* request is ever handled; serving is reached only after setup_camera
\* returned True.
Handled == last # NoExchange \/ \E c \in Conns : handler[c].pc # "idle"
C5_ProbeGate ==
  /\ setupResult = "false" => pc = "exited" /\ ~Handled
  /\ pc \in {"initial", "initialWait", "bind", "serving", "stopped"} \/ Handled
       => setupResult = "true"
\* the probe has failed and main has returned
C5_Witness ==
  setupResult = "false" /\ pc = "exited" /\ trail = <<"probe">>

\* C6 as stated: a request with a method other than GET is answered 404
\* "Not found" and never invokes the tool.
C6_Original ==
  last.method \notin {"", "GET"} =>
    /\ last.resp.status = 404
    /\ last.resp.text = "Not found"
    /\ last.calls = 0
\* C6 as amended: a request with a method other than GET, to any path, is
\* answered 501 (unsupported method), never invokes the tool and never
\* touches the photo file.
C6_UnsupportedMethod ==
  /\ last.method \notin {"", "GET"} =>
       /\ last.resp.status = 501
       /\ last.calls = 0
       /\ ~last.touched
  /\ \A c \in Conns :
       handler[c].method \notin {"", "GET"} =>
         handler[c].pc = "dispatch" /\ proc[c].state = "none"
\* a POST to /capture answered 501
C6_Witness ==
  /\ last.method = "POST"
  /\ last.target = <<"/", "capture">>
  /\ last.resp.status = 501

\* C7 as stated: a GET whose target, with query string and fragment removed,
\* is none of "/", "/photo", "/capture" is answered 404 "Not found", and the
\* photo file is neither read nor modified.
RoutedPaths == { <<"/">>, <<"/", "photo">>, <<"/", "capture">> }
C7_Original ==
  /\ IsGet(last) /\ UrlSplitPath(last.target) \notin RoutedPaths =>
       /\ last.resp.status = 404
       /\ last.resp.text = "Not found"
       /\ ~last.touched
       /\ last.calls = 0
  /\ \A c \in Conns :
       IsGet(handler[c]) /\ UrlSplitPath(handler[c].target) \notin RoutedPaths =>
         handler[c].pc = "dispatch" /\ proc[c].state = "none"

\* C8: no /photo read takes place while a capture (of a /capture request or
\* the initial one) is writing the photo file, and no /photo body is a
\* partially written image.
C8_NoPartialRead ==
  /\ \A c \in Conns :
       handler[c].pc = "read" \/ (handler[c].pc = "dispatch" /\ RouteOf(handler[c]) = "photo")
         => ~PhotoBeingWritten
  /\ (\E c \in Conns : handler[c].pc # "idle") => proc[MainThread].state = "none"
  /\ last.resp.ctype = "image/jpeg" => Len(last.resp.bytes) = ImageLen
\* a /photo read in progress on a file a /capture request has written
C8_Witness ==
  /\ captureOk
  /\ \E c \in Conns : handler[c].pc = "read"
  /\ shots > 0 /\ files[PHOTO].bytes = Image(shots)

\* C9: two GET /photo requests with no /capture request between them get
\* identical responses; GET /, GET /photo and GETs of unknown paths never
\* change the photo file.
ReadOnlyTargets ==
  { <<"/">>, <<"/", "photo">>, <<"/", "photo", "?", "1">>,
    <<"/", "photo", ";", "x", "/", "y">>, <<"/", "other">> }
C10_StartupOrder ==
  /\ pc \in {"serving", "stopped"} \/ Handled =>
       /\ trail = <<"probe", "capture">>
       /\ setupResult = "true"
       /\ initResult \in {"true", "false"}
       /\ proc[MainThread].state = "none"
  /\ pc = "exited" => setupResult = "false" /\ initResult = "pending"
  /\ pc = "bind" => ENABLED StartServer
  /\ initResult = "false" /\ ~preexisting /\ ~captureOk =>
       /\ lastPhoto.n > 0 => lastPhoto.resp = PhotoMissing
       /\ IsGet(last) /\ RouteOf(last) = "photo" => last.resp = PhotoMissing
\* serving after a failed initial capture, /photo answered 404
C10_Witness ==
  /\ pc = "serving"
  /\ initResult = "false"
  /\ ~preexisting
  /\ last.resp = PhotoMissing

=============================================================================
